---- MODULE Spec2Model ----
(***************************************************************************)
(* Model of the calendar utilities of prototipo-agenda-estudio:            *)
(*   src/src/lib/calendar-utils.ts  (slot classifier, tiered project cost, *)
(*                                   monthly client roll-up)               *)
(*   src/src/types/index.ts         (the earlier variant of the same       *)
(*                                   utilities: rate by selected package)  *)
(*                                                                         *)
(* The utilities are pure functions.  Each is an operator computed the way *)
(* the code computes it; each specification draws the inputs in its Init   *)
(* and its actions apply the functions and record what they returned.      *)
(*                                                                         *)
(* Units.  Instants are counted in ticks, TicksPerHour ticks to the hour,  *)
(* so that bookings and slots need not be hour-aligned.  Durations are     *)
(* counted in tenths of an hour (the code rounds durations to one decimal),*)
(* so 39.9 h is 399 and an amount is in tenths of the currency unit; sums   *)
(* and products are exact, where the code's are IEEE doubles.              *)
(* A value that may be absent (undefined / null) is a set: {} or {v}.      *)
(***************************************************************************)
EXTENDS Integers, Sequences, FiniteSets

VARIABLES
    bookings,             \* checkSlotAvailability: the Booking[] argument
    slotTime,             \* checkSlotAvailability: the slotTime argument
    slotResult,           \* what checkSlotAvailability returned
    project,              \* calculateProjectCost: the project argument ({} = undefined)
    projectBookings,      \* calculateProjectCost: the bookings' durations
    costMetrics,          \* what calculateProjectCost (calendar-utils.ts) returned
    typesCostMetrics,     \* what calculateProjectCost (types/index.ts) returned
    allBookingDocuments,  \* calculateMonthlyClientMetrics: booking documents
    allProjects,          \* calculateMonthlyClientMetrics: project documents
    allClients,           \* calculateMonthlyClientMetrics: client documents
    targetDateForMonth,   \* calculateMonthlyClientMetrics: the target month
    monthlyRecipe,        \* what calculateMonthlyClientMetrics returned
    ran                   \* the operations applied so far to the inputs

vars == <<bookings, slotTime, slotResult, project, projectBookings, costMetrics,
          typesCostMetrics, allBookingDocuments, allProjects, allClients,
          targetDateForMonth, monthlyRecipe, ran>>

slotVars == <<bookings, slotTime, slotResult>>
costVars == <<project, projectBookings, costMetrics, typesCostMetrics>>
monthlyVars == <<allBookingDocuments, allProjects, allClients, targetDateForMonth,
                 monthlyRecipe>>

(***************************************************************************)
(* Bounds of the model and constants of the program                        *)
(***************************************************************************)
\* ticks per hour: 2 makes half-hour instants
TicksPerHour == 2
\* booking instants range over 0 .. MaxTick, slot starts one hour further
MaxTick == 6
\* longest bookings list handed to checkSlotAvailability
MaxBookings == 2

BUFFER_HOURS == 1

TenthsPerHour == 10

Hour == TicksPerHour
addHours(t, n) == t + n * Hour
subHours(t, n) == t - n * Hour

Ticks == 0 .. MaxTick
SlotTicks == 0 .. (MaxTick + Hour)
\* a Booking, as far as the classifier reads it; end after start (the data
\* model's invariant, which the callers guarantee)
Bookings == {b \in [startTime : Ticks, endTime : Ticks] : b.endTime > b.startTime}

RECURSIVE SeqsUpTo(_, _)
SeqsUpTo(S, n) ==
    IF n = 0 THEN {<<>>}
    ELSE LET shorter == SeqsUpTo(S, n - 1)
         IN  shorter \cup {Append(s, x) : s \in {t \in shorter : Len(t) = n - 1}, x \in S}

(***************************************************************************)
(* Slot classifier: checkSlotAvailability                                  *)
(***************************************************************************)
\* variant: the first test also takes a slot that starts at the booking's end
isDirectlyBooked_InclusiveEnd(slot, slotEndTime, booking) ==
    \/ (slot >= booking.startTime /\ slot <= booking.endTime)
    \/ (slotEndTime > booking.startTime /\ slotEndTime <= booking.endTime)
    \/ (booking.startTime >= slot /\ booking.endTime <= slotEndTime)

\* the three-way interval test of both passes
isDirectlyBooked(slot, slotEndTime, booking) ==
    \/ (slot >= booking.startTime /\ slot < booking.endTime)
    \/ (slotEndTime > booking.startTime /\ slotEndTime <= booking.endTime)
    \/ (booking.startTime >= slot /\ booking.endTime <= slotEndTime)

\* variant: the buffer after the end leaves out the booking's end itself
inBufferZone_ExclusiveEnd(slot, booking) ==
    LET bufferBeforeStart == subHours(booking.startTime, BUFFER_HOURS)
        bufferAfterEnd == addHours(booking.endTime, BUFFER_HOURS)
    IN  \/ (slot >= bufferBeforeStart /\ slot < booking.startTime)
        \/ (slot > booking.endTime /\ slot < bufferAfterEnd)

\* the two buffer tests of the second pass
inBufferZone(slot, booking) ==
    LET bufferBeforeStart == subHours(booking.startTime, BUFFER_HOURS)
        bufferAfterEnd == addHours(booking.endTime, BUFFER_HOURS)
    IN  \/ (slot >= bufferBeforeStart /\ slot < booking.startTime)
        \/ (slot >= booking.endTime /\ slot < bufferAfterEnd)

\* first pass: index of the first booking the slot overlaps, 0 when none
RECURSIVE firstBooked(_, _, _, _)
firstBooked(slot, slotEndTime, bks, i) ==
    IF i > Len(bks) THEN 0
    ELSE IF isDirectlyBooked(slot, slotEndTime, bks[i]) THEN i
    ELSE firstBooked(slot, slotEndTime, bks, i + 1)

\* second pass: index of the first booking that is not directly booked and
\* whose buffer zone holds the slot start, 0 when none
RECURSIVE firstBuffer(_, _, _, _)
firstBuffer(slot, slotEndTime, bks, i) ==
    IF i > Len(bks) THEN 0
    ELSE IF isDirectlyBooked(slot, slotEndTime, bks[i])
         THEN firstBuffer(slot, slotEndTime, bks, i + 1)
    ELSE IF inBufferZone(slot, bks[i]) THEN i
    ELSE firstBuffer(slot, slotEndTime, bks, i + 1)

\* variant: the second pass looks at the first booking alone
checkSlotAvailability_FirstOnly(slot, bks) ==
    LET slotEndTime == addHours(slot, 1)
        first == IF Len(bks) = 0 THEN <<>> ELSE <<bks[1]>>
        booked == firstBooked(slot, slotEndTime, bks, 1)
        buffer == firstBuffer(slot, slotEndTime, first, 1)
    IN  IF booked # 0
        THEN [isBooked |-> TRUE, isBuffer |-> FALSE, bookingDetails |-> {bks[booked]}]
        ELSE IF buffer # 0
        THEN [isBooked |-> FALSE, isBuffer |-> TRUE, bookingDetails |-> {bks[buffer]}]
        ELSE [isBooked |-> FALSE, isBuffer |-> FALSE, bookingDetails |-> {}]

\* first pass, then second pass, else free; bookingDetails is the booking found
checkSlotAvailability(slot, bks) ==
    LET slotEndTime == addHours(slot, 1)
        booked == firstBooked(slot, slotEndTime, bks, 1)
        buffer == firstBuffer(slot, slotEndTime, bks, 1)
    IN  IF booked # 0
        THEN [isBooked |-> TRUE, isBuffer |-> FALSE, bookingDetails |-> {bks[booked]}]
        ELSE IF buffer # 0
        THEN [isBooked |-> FALSE, isBuffer |-> TRUE, bookingDetails |-> {bks[buffer]}]
        ELSE [isBooked |-> FALSE, isBuffer |-> FALSE, bookingDetails |-> {}]

NoSlotResult == [isBooked |-> FALSE, isBuffer |-> FALSE, bookingDetails |-> {}]

(***************************************************************************)
(* Pricing: rate resolution and calculateProjectCost                       *)
(***************************************************************************)
\* largest single duration, in tenths of an hour, drawn for a one-booking list
MaxTenths == 450
\* longest list of bookings drawn from DurationChoices
MaxProjectBookings == 3

Hours(n) == n * TenthsPerHour
\* an amount of n currency units, in the unit of hours-in-tenths times rate
Amount(n) == n * TenthsPerHour

\* durations (tenths of an hour) whose sums fall on both sides of every tier
DurationChoices == {1, Hours(5), Hours(6), Hours(20) - 1, Hours(20)}

BillingTypes == {"pacote", "personalizado"}
PacoteTypes == {"Avulso", "Pacote 10h", "Pacote 20h", "Pacote 40h"}
\* a ProjectDocument, as far as pricing reads it; customRate and
\* pacoteSelecionado are optional
CostProjects ==
    [billingType : BillingTypes,
     customRate : {{}, {200}},
     pacoteSelecionado : {{}} \cup {{p} : p \in PacoteTypes}]

\* variant: the tier thresholds are exclusive
getProjectPricePerHour_Exclusive(proj, totalHours) ==
    IF proj.billingType = "personalizado" /\ proj.customRate # {}
    THEN CHOOSE r \in proj.customRate : TRUE
    ELSE IF totalHours > Hours(40) THEN 160
    ELSE IF totalHours > Hours(20) THEN 230
    ELSE IF totalHours > Hours(10) THEN 260
    ELSE 350

\* variant: the 20-hour tier is missing
getProjectPricePerHour_NoTwentyTier(proj, totalHours) ==
    IF proj.billingType = "personalizado" /\ proj.customRate # {}
    THEN CHOOSE r \in proj.customRate : TRUE
    ELSE IF totalHours >= Hours(40) THEN 160
    ELSE IF totalHours >= Hours(10) THEN 260
    ELSE 350

\* calendar-utils.ts: a numeric custom rate on a 'personalizado' project wins,
\* every other case is priced by the tier of the total hours
getProjectPricePerHour(proj, totalHours) ==
    IF proj.billingType = "personalizado" /\ proj.customRate # {}
    THEN CHOOSE r \in proj.customRate : TRUE
    ELSE IF totalHours >= Hours(40) THEN 160
    ELSE IF totalHours >= Hours(20) THEN 230
    ELSE IF totalHours >= Hours(10) THEN 260
    ELSE 350

\* types/index.ts: the rate of the selected package, whatever the hours
getPricePerHourForProject(proj) ==
    IF proj.billingType = "personalizado"
    THEN IF proj.customRate # {} THEN CHOOSE r \in proj.customRate : TRUE ELSE 0
    ELSE IF proj.billingType = "pacote"
    THEN IF proj.pacoteSelecionado = {"Avulso"} THEN 350
         ELSE IF proj.pacoteSelecionado = {"Pacote 10h"} THEN 260
         ELSE IF proj.pacoteSelecionado = {"Pacote 20h"} THEN 230
         ELSE IF proj.pacoteSelecionado = {"Pacote 40h"} THEN 160
         ELSE 350
    ELSE 0

\* docs.reduce((sum, booking) => sum + booking.duration, 0)
RECURSIVE sumDurations(_, _)
sumDurations(docs, i) ==
    IF i > Len(docs) THEN 0 ELSE docs[i].duration + sumDurations(docs, i + 1)

\* variant: a missing project is priced as an empty package project
calculateProjectCost_NoNullCheck(docs, proj) ==
    LET p == IF proj = {}
             THEN [billingType |-> "pacote", customRate |-> {}, pacoteSelecionado |-> {}]
             ELSE CHOOSE x \in proj : TRUE
        totalHours == sumDurations(docs, 1)
        pricePerHour == getProjectPricePerHour(p, totalHours)
    IN  {[totalHours |-> totalHours, pricePerHour |-> pricePerHour,
          totalAmount |-> totalHours * pricePerHour]}

\* variant: the rate is resolved from the first booking, not from the total
calculateProjectCost_PerBookingRate(docs, proj) ==
    IF proj = {} THEN {}
    ELSE LET p == CHOOSE x \in proj : TRUE
             totalHours == sumDurations(docs, 1)
             pricePerHour == getProjectPricePerHour(p, IF Len(docs) = 0 THEN 0 ELSE docs[1].duration)
         IN  {[totalHours |-> totalHours, pricePerHour |-> pricePerHour,
               totalAmount |-> totalHours * pricePerHour]}

\* calendar-utils.ts: null without a project, else the lifetime totals
calculateProjectCost(docs, proj) ==
    IF proj = {} THEN {}
    ELSE LET p == CHOOSE x \in proj : TRUE
             totalHours == sumDurations(docs, 1)
             pricePerHour == getProjectPricePerHour(p, totalHours)
         IN  {[totalHours |-> totalHours, pricePerHour |-> pricePerHour,
               totalAmount |-> totalHours * pricePerHour]}

\* types/index.ts: the same, with the rate of the selected package
calculateProjectCost_types(docs, proj) ==
    IF proj = {} THEN {}
    ELSE LET p == CHOOSE x \in proj : TRUE
             totalHours == sumDurations(docs, 1)
             pricePerHour == getPricePerHourForProject(p)
         IN  {[totalHours |-> totalHours, pricePerHour |-> pricePerHour,
               totalAmount |-> totalHours * pricePerHour]}

DurationDoc(d) == [duration |-> d]
ProjectBookingLists ==
    {[i \in DOMAIN s |-> DurationDoc(s[i])] :
        s \in SeqsUpTo(DurationChoices, MaxProjectBookings) \cup {<<d>> : d \in 0 .. MaxTenths}}

(***************************************************************************)
(* Monthly roll-up: calculateMonthlyClientMetrics (calendar-utils.ts)      *)
(***************************************************************************)
\* longest list of booking documents handed to the roll-up
MaxDocs == 2
\* the calendar months a booking may start in
Months == {"2024-05", "2024-06"}
\* "cX" and "pX" are referenced by bookings and are in no reference list
ClientIds == {"c1", "c2", "cX"}
ProjectIds == {"p1", "p2", "pX"}
MonthlyDurationChoices == {Hours(5), Hours(10)}
\* a BookingDocument, as far as the roll-up reads it; month stands for the
\* calendar month and year of startTime
BookingDocuments ==
    [clientId : ClientIds, projectId : ProjectIds, month : Months,
     duration : MonthlyDurationChoices]
\* client lists: with distinct display names, and with one name shared
ClientLists ==
    {<<[id |-> "c1", name |-> "Ana"], [id |-> "c2", name |-> n]>> : n \in {"Ana", "Bia"}}
ProjectList ==
    <<[id |-> "p1", billingType |-> "pacote", customRate |-> {}, pacoteSelecionado |-> {}],
      [id |-> "p2", billingType |-> "personalizado", customRate |-> {160},
       pacoteSelecionado |-> {}]>>

\* date-fns isSameMonth on the month a booking starts in
isSameMonth(month, target) == month = target

\* list.find(x => x.id === id): {} when absent, else the first match
RECURSIVE find(_, _, _)
find(list, id, i) ==
    IF i > Len(list) THEN {}
    ELSE IF list[i].id = id THEN {list[i]}
    ELSE find(list, id, i + 1)

\* the keys of a Record<string, BookingDocument[]> filled by forEach, in the
\* order for...in visits them: the order of first insertion (ids are document
\* ids, not array indices, which for...in would visit in numeric order)
RECURSIVE keysInOrder(_, _, _, _)
keysInOrder(docs, field, i, seen) ==
    IF i > Len(docs) THEN seen
    ELSE LET k == docs[i][field]
         IN  IF \E j \in DOMAIN seen : seen[j] = k
             THEN keysInOrder(docs, field, i + 1, seen)
             ELSE keysInOrder(docs, field, i + 1, Append(seen, k))

\* docs.filter(b => b[field] === key)
RECURSIVE filterBy(_, _, _, _)
filterBy(docs, field, key, i) ==
    IF i > Len(docs) THEN <<>>
    ELSE IF docs[i][field] = key
         THEN <<docs[i]>> \o filterBy(docs, field, key, i + 1)
         ELSE filterBy(docs, field, key, i + 1)

\* allBookingDocuments.filter(b => isSameMonth(new Date(b.startTime), target))
RECURSIVE filterMonth(_, _, _)
filterMonth(docs, target, i) ==
    IF i > Len(docs) THEN <<>>
    ELSE IF isSameMonth(docs[i].month, target)
         THEN <<docs[i]>> \o filterMonth(docs, target, i + 1)
         ELSE filterMonth(docs, target, i + 1)

\* variant: the rate is resolved from the target month's bookings alone
projectRateDocs_MonthOnly(allDocs, monthDocs, projectId) ==
    filterBy(monthDocs, "projectId", projectId, 1)

\* the bookings whose total resolves a project's rate: all of the project's
\* bookings, of any month and any client
projectRateDocs(allDocs, monthDocs, projectId) ==
    filterBy(allDocs, "projectId", projectId, 1)

\* the loop over one client's project groups: <<hours, amount>> accumulated
RECURSIVE foldProjects(_, _, _, _, _, _, _)
foldProjects(allDocs, monthDocs, projects, clientDocs, order, i, acc) ==
    IF i > Len(order) THEN acc
    ELSE LET projectId == order[i]
             proj == find(projects, projectId, 1)
             projectCostMetrics ==
                 calculateProjectCost(projectRateDocs(allDocs, monthDocs, projectId), proj)
             monthlyHoursForThisProject ==
                 sumDurations(filterBy(clientDocs, "projectId", projectId, 1), 1)
         IN  IF proj = {} \/ projectCostMetrics = {}
             THEN foldProjects(allDocs, monthDocs, projects, clientDocs, order, i + 1, acc)
             ELSE LET m == CHOOSE x \in projectCostMetrics : TRUE
                  IN  foldProjects(allDocs, monthDocs, projects, clientDocs, order, i + 1,
                          <<acc[1] + monthlyHoursForThisProject,
                            acc[2] + monthlyHoursForThisProject * m.pricePerHour>>)

\* clientTotalAmount / clientTotalHours, kept as a fraction; 0 without hours
effectivePricePerHour(clientTotalHours, clientTotalAmount) ==
    IF clientTotalHours > 0
    THEN [num |-> clientTotalAmount, den |-> clientTotalHours]
    ELSE [num |-> 0, den |-> 1]

\* monthlyRecipe[name] = metrics
putRecipe(recipe, name, metrics) ==
    [n \in DOMAIN recipe \cup {name} |-> IF n = name THEN metrics ELSE recipe[n]]

EmptyRecipe == [n \in {} |-> 0]

\* the loop over the client groups
RECURSIVE foldClients(_, _, _, _, _, _, _)
foldClients(allDocs, monthDocs, projects, clients, order, i, recipe) ==
    IF i > Len(order) THEN recipe
    ELSE LET clientId == order[i]
             client == find(clients, clientId, 1)
             clientDocs == filterBy(monthDocs, "clientId", clientId, 1)
             totals == foldProjects(allDocs, monthDocs, projects, clientDocs,
                           keysInOrder(clientDocs, "projectId", 1, <<>>), 1, <<0, 0>>)
         IN  IF client = {}
             THEN foldClients(allDocs, monthDocs, projects, clients, order, i + 1, recipe)
             ELSE foldClients(allDocs, monthDocs, projects, clients, order, i + 1,
                      putRecipe(recipe, (CHOOSE c \in client : TRUE).name,
                          [totalHours |-> totals[1],
                           pricePerHour |-> effectivePricePerHour(totals[1], totals[2]),
                           totalAmount |-> totals[2]]))

\* variant: a project missing from the list is priced as a package project
calculateMonthlyClientMetrics_KeepUnknownProject(allDocs, projects, clients, target) ==
    LET monthDocs == filterMonth(allDocs, target, 1)
        known == [id |-> "pX", billingType |-> "pacote", customRate |-> {},
                  pacoteSelecionado |-> {}]
    IN  foldClients(allDocs, monthDocs, Append(projects, known), clients,
            keysInOrder(monthDocs, "clientId", 1, <<>>), 1, EmptyRecipe)

\* filter the target month, group by client, roll the groups up
calculateMonthlyClientMetrics(allDocs, projects, clients, target) ==
    LET monthDocs == filterMonth(allDocs, target, 1)
    IN  foldClients(allDocs, monthDocs, projects, clients,
            keysInOrder(monthDocs, "clientId", 1, <<>>), 1, EmptyRecipe)

(***************************************************************************)
(* Specifications                                                          *)
(***************************************************************************)
SlotIdle ==
    /\ bookings = <<>>
    /\ slotTime = 0
    /\ slotResult = NoSlotResult

CostIdle ==
    /\ project = {}
    /\ projectBookings = <<>>
    /\ costMetrics = {}
    /\ typesCostMetrics = {}

MonthlyIdle ==
    /\ allBookingDocuments = <<>>
    /\ allProjects = <<>>
    /\ allClients = <<>>
    /\ targetDateForMonth = "2024-05"
    /\ monthlyRecipe = EmptyRecipe

\* the classifier's inputs: any bookings list; no slot checked yet
InitSlot ==
    /\ bookings \in SeqsUpTo(Bookings, MaxBookings)
    /\ slotTime = 0
    /\ slotResult = NoSlotResult
    /\ CostIdle
    /\ MonthlyIdle
    /\ ran = {}

\* checkSlotAvailability(s, bookings), for any slot start s
CheckSlot ==
    \E s \in SlotTicks :
        /\ ran = {}
        /\ slotTime' = s
        /\ slotResult' = checkSlotAvailability(s, bookings)
        /\ ran' = {"checkSlotAvailability"}
        /\ UNCHANGED <<bookings, costVars, monthlyVars>>

NextSlot == CheckSlot

SpecSlot == InitSlot /\ [][NextSlot]_vars

\* the inputs of calculateProjectCost: a project or none, and its bookings
InitCost ==
    /\ project \in {{}} \cup {{p} : p \in CostProjects}
    /\ projectBookings \in ProjectBookingLists
    /\ costMetrics = {}
    /\ typesCostMetrics = {}
    /\ SlotIdle
    /\ MonthlyIdle
    /\ ran = {}

\* calendar-utils.ts calculateProjectCost(projectBookings, project)
CalculateProjectCost ==
    /\ "calculateProjectCost" \notin ran
    /\ costMetrics' = calculateProjectCost(projectBookings, project)
    /\ ran' = ran \cup {"calculateProjectCost"}
    /\ UNCHANGED <<project, projectBookings, typesCostMetrics, slotVars, monthlyVars>>

\* types/index.ts calculateProjectCost(projectBookings, project)
CalculateProjectCostTypes ==
    /\ "calculateProjectCost_types" \notin ran
    /\ typesCostMetrics' = calculateProjectCost_types(projectBookings, project)
    /\ ran' = ran \cup {"calculateProjectCost_types"}
    /\ UNCHANGED <<project, projectBookings, costMetrics, slotVars, monthlyVars>>

NextCost == CalculateProjectCost \/ CalculateProjectCostTypes

SpecCost == InitCost /\ [][NextCost]_vars

\* the inputs of calculateMonthlyClientMetrics
InitMonthly ==
    /\ allBookingDocuments \in SeqsUpTo(BookingDocuments, MaxDocs)
    /\ allProjects = ProjectList
    /\ allClients \in ClientLists
    /\ targetDateForMonth = "2024-05"
    /\ monthlyRecipe = EmptyRecipe
    /\ SlotIdle
    /\ CostIdle
    /\ ran = {}

\* calculateMonthlyClientMetrics(allBookingDocuments, allProjects, allClients, t)
CalculateMonthlyClientMetrics ==
    \E t \in Months :
        /\ ran = {}
        /\ targetDateForMonth' = t
        /\ monthlyRecipe' =
               calculateMonthlyClientMetrics(allBookingDocuments, allProjects, allClients, t)
        /\ ran' = {"calculateMonthlyClientMetrics"}
        /\ UNCHANGED <<allBookingDocuments, allProjects, allClients, slotVars, costVars>>

NextMonthly == CalculateMonthlyClientMetrics

SpecMonthly == InitMonthly /\ [][NextMonthly]_vars

(***************************************************************************)
(* Properties of the slot classifier (under SpecSlot)                      *)
(***************************************************************************)
SlotChecked == ran = {"checkSlotAvailability"}

HourAligned(t) == t % Hour = 0

\* the booking's interval meets the slot [s, s + 1h)
Overlaps(b, s) == b.startTime < s + Hour /\ b.endTime > s

\* s lies in the hour before the booking's start or in the hour after its end
InBufferOf(b, s) ==
    \/ (b.startTime - BUFFER_HOURS * Hour <= s /\ s < b.startTime)
    \/ (b.endTime <= s /\ s < b.endTime + BUFFER_HOURS * Hour)

Flags(r) == <<r.isBooked, r.isBuffer>>

SomeOverlap == \E i \in DOMAIN bookings : Overlaps(bookings[i], slotTime)
SomeBuffer == \E i \in DOMAIN bookings : InBufferOf(bookings[i], slotTime)

\* the reorderings of a list
Reorderings(list) ==
    LET n == Len(list)
        perms == {f \in [1 .. n -> 1 .. n] : \A i, j \in 1 .. n : i # j => f[i] # f[j]}
    IN  {[i \in 1 .. n |-> list[f[i]]] : f \in perms}

\* C1: one booking a..b, all hour-aligned: the slots a <= s < b are booked,
\* the slots a - 1h and b are buffer, every other slot is free; so a booking
\* 14:00-16:00 (here 1h..3h, 13:00 being 0) makes 13:00 buffer, 14:00 and
\* 15:00 booked, 16:00 buffer and 17:00 free.
C1_SingleBookingSlots ==
    (/\ SlotChecked
     /\ Len(bookings) = 1
     /\ HourAligned(bookings[1].startTime)
     /\ HourAligned(bookings[1].endTime)
     /\ HourAligned(slotTime))
    => LET a == bookings[1].startTime
           b == bookings[1].endTime
           s == slotTime
           f == Flags(slotResult)
       IN  /\ (a <= s /\ s < b) => f = <<TRUE, FALSE>>
           /\ (s = a - Hour \/ s = b) => f = <<FALSE, TRUE>>
           /\ ~(a <= s /\ s < b) /\ s # a - Hour /\ s # b => f = <<FALSE, FALSE>>
           /\ (a = Hour /\ b = 3 * Hour) =>
                  /\ s = 0 => f = <<FALSE, TRUE>>
                  /\ s \in {Hour, 2 * Hour} => f = <<TRUE, FALSE>>
                  /\ s = 3 * Hour => f = <<FALSE, TRUE>>
                  /\ s = 4 * Hour => f = <<FALSE, FALSE>>

C1_Witness ==
    /\ SlotChecked
    /\ bookings = <<[startTime |-> Hour, endTime |-> 3 * Hour]>>
    /\ slotTime = 3 * Hour
    /\ Flags(slotResult) = <<FALSE, TRUE>>

\* C2 as stated: when no booking overlaps the slot, the slot is neither
\* booked nor buffer.
C2_NoOverlapIsFree ==
    (SlotChecked /\ ~SomeOverlap) => Flags(slotResult) = <<FALSE, FALSE>>

\* C2 amended: when no booking overlaps the slot, the slot is not booked, and
\* it is buffer exactly when its start lies in the hour before the start or
\* after the end of some booking (so it is free only outside every such zone).
C2_NoOverlapNotBooked ==
    (SlotChecked /\ ~SomeOverlap) =>
        /\ ~slotResult.isBooked
        /\ slotResult.isBuffer <=> SomeBuffer

C2_Witness ==
    /\ SlotChecked
    /\ Len(bookings) = 2
    /\ ~SomeOverlap
    /\ ~SomeBuffer
    /\ Flags(slotResult) = <<FALSE, FALSE>>

\* C10: the two flags are the same for every reordering of the bookings and
\* never both true; booked exactly when some booking overlaps the slot, buffer
\* exactly when none does and the slot start is in some booking's buffer hour.
C10_FlagsOrderIndependent ==
    SlotChecked =>
        /\ \A other \in Reorderings(bookings) :
               Flags(checkSlotAvailability(slotTime, other)) = Flags(slotResult)
        /\ ~(slotResult.isBooked /\ slotResult.isBuffer)
        /\ slotResult.isBooked <=> SomeOverlap
        /\ slotResult.isBuffer <=> (~SomeOverlap /\ SomeBuffer)

\* two bookings' buffer hours hold the slot: the booking reported depends on
\* the order, the flags do not
C10_Witness ==
    /\ SlotChecked
    /\ Len(bookings) = 2
    /\ slotResult.isBuffer
    /\ InBufferOf(bookings[1], slotTime) /\ InBufferOf(bookings[2], slotTime)
    /\ checkSlotAvailability(slotTime, <<bookings[2], bookings[1]>>).bookingDetails
           # slotResult.bookingDetails

(***************************************************************************)
(* Properties of calculateProjectCost (under SpecCost)                     *)
(***************************************************************************)
CostRan == "calculateProjectCost" \in ran
TypesCostRan == "calculateProjectCost_types" \in ran

TheProject == CHOOSE p \in project : TRUE
TheCost == CHOOSE m \in costMetrics : TRUE

\* the sum of the durations of the documents at the indices I
RECURSIVE SumOver(_, _)
SumOver(docs, I) ==
    IF I = {} THEN 0
    ELSE LET i == CHOOSE x \in I : TRUE
         IN  docs[i].duration + SumOver(docs, I \ {i})

LifetimeTenths == SumOver(projectBookings, DOMAIN projectBookings)

\* the package tiers: lower threshold in hours, rate
Tiers == {<<0, 350>>, <<10, 260>>, <<20, 230>>, <<40, 160>>}
\* the rate of the highest tier whose threshold the hours reach
TierRate(tenths) ==
    LET reached == {t \in Tiers : Hours(t[1]) <= tenths}
        top == CHOOSE t \in reached : \A u \in reached : u[1] <= t[1]
    IN  top[2]

PackageCosted == CostRan /\ project # {} /\ TheProject.billingType = "pacote"

\* C3: for a package project the rate is the step function of the cumulative
\* hours with inclusive lower thresholds, the highest tier reached winning.
C3_PackageRateIsStepFunction ==
    PackageCosted =>
        /\ TheCost.pricePerHour = TierRate(LifetimeTenths)
        /\ LifetimeTenths >= Hours(40) => TheCost.pricePerHour = 160
        /\ LifetimeTenths < Hours(10) => TheCost.pricePerHour = 350

C3_Witness ==
    /\ PackageCosted
    /\ Len(projectBookings) = 2
    /\ LifetimeTenths = Hours(40)
    /\ TheCost.pricePerHour = 160

\* C4 as stated: a package project at 39 h or 39.9 h pays 350 per hour for
\* all its hours, and 160 at 40 h.
C4_JustBelowFortyPays350 ==
    PackageCosted =>
        /\ LifetimeTenths \in {Hours(39), Hours(40) - 1} => TheCost.pricePerHour = 350
        /\ LifetimeTenths = Hours(40) => TheCost.pricePerHour = 160

\* C4 amended: a package project at 39 h or 39.9 h pays 230 per hour (the
\* 20-hour tier) for all its hours, and 160 at 40 h.
C4_JustBelowFortyPays230 ==
    PackageCosted =>
        /\ LifetimeTenths \in {Hours(39), Hours(40) - 1} =>
               /\ TheCost.pricePerHour = 230
               /\ TheCost.totalAmount = LifetimeTenths * 230
        /\ LifetimeTenths = Hours(40) => TheCost.pricePerHour = 160

C4_Witness ==
    /\ PackageCosted
    /\ Len(projectBookings) = 2
    /\ LifetimeTenths = Hours(40) - 1
    /\ TheCost.pricePerHour = 230

\* C5: for a custom-billed project the rate is the custom rate whatever the
\* hours, and 0 when the custom rate is missing.
C5_CustomRateOrZero ==
    (CostRan /\ project # {} /\ TheProject.billingType = "personalizado") =>
        TheCost.pricePerHour =
            IF TheProject.customRate # {}
            THEN CHOOSE r \in TheProject.customRate : TRUE
            ELSE 0

\* C6: with a project, totalHours is the sum of all the bookings' durations,
\* pricePerHour the rate resolved against that total and totalAmount their
\* product; a package project with 5 h and 6 h gives 11 h, 260, 2860.
C6_LifetimeTotals ==
    (CostRan /\ project # {}) =>
        /\ TheCost.totalHours = LifetimeTenths
        /\ TheCost.pricePerHour = getProjectPricePerHour(TheProject, LifetimeTenths)
        /\ TheCost.totalAmount = LifetimeTenths * TheCost.pricePerHour
        /\ (/\ TheProject.billingType = "pacote"
            /\ projectBookings = <<DurationDoc(Hours(5)), DurationDoc(Hours(6))>>)
           => /\ TheCost.totalHours = Hours(11)
              /\ TheCost.pricePerHour = 260
              /\ TheCost.totalAmount = Amount(2860)

C6_Witness ==
    /\ PackageCosted
    /\ projectBookings = <<DurationDoc(Hours(5)), DurationDoc(Hours(6))>>
    /\ TheCost = [totalHours |-> Hours(11), pricePerHour |-> 260,
                  totalAmount |-> Amount(2860)]

\* C7: without a project the result is null, for every bookings list, and
\* with a project it is never null (in both variants of calculateProjectCost).
C7_NullIffNoProject ==
    /\ CostRan => (costMetrics = {} <=> project = {})
    /\ TypesCostRan => (typesCostMetrics = {} <=> project = {})

C7_Witness ==
    /\ CostRan
    /\ TypesCostRan
    /\ project = {}
    /\ Len(projectBookings) = MaxProjectBookings
    /\ costMetrics = {}
    /\ typesCostMetrics = {}

(***************************************************************************)
(* Properties of calculateMonthlyClientMetrics (under SpecMonthly)         *)
(***************************************************************************)
MonthlyRan == ran = {"calculateMonthlyClientMetrics"}

Listed(list) == {list[i] : i \in DOMAIN list}
KnownClientIds == {c.id : c \in Listed(allClients)}
KnownProjectIds == {p.id : p \in Listed(allProjects)}

\* indices of the bookings that start in the target month
InMonth == {i \in DOMAIN allBookingDocuments :
               allBookingDocuments[i].month = targetDateForMonth}
\* the target-month bookings of client c
MonthOf(c) == {i \in InMonth : allBookingDocuments[i].clientId = c.id}
\* all the bookings of project p, of any month and client
LifetimeOf(p) == {i \in DOMAIN allBookingDocuments : allBookingDocuments[i].projectId = p.id}

\* sum over the listed projects of c's target-month hours on the project
\* times the rate the project's lifetime hours resolve to
RECURSIVE AmountOver(_, _)
AmountOver(c, P) ==
    IF P = {} THEN 0
    ELSE LET p == CHOOSE x \in P : TRUE
             monthly == SumOver(allBookingDocuments,
                            {i \in MonthOf(c) : allBookingDocuments[i].projectId = p.id})
             rate == getProjectPricePerHour(p,
                         SumOver(allBookingDocuments, LifetimeOf(p)))
         IN  monthly * rate + AmountOver(c, P \ {p})

\* the fraction q is amount / hours, and 0 when hours is 0
IsQuotient(q, amount, hours) ==
    /\ q.den # 0
    /\ IF hours = 0 THEN q.num = 0 ELSE q.num * hours = amount * q.den

\* no other listed client with target-month bookings has c's display name
NameIsOwn(c) ==
    \A d \in Listed(allClients) : (d.name = c.name /\ MonthOf(d) # {}) => d.id = c.id

ExampleDocs ==
    <<[clientId |-> "c1", projectId |-> "p1", month |-> targetDateForMonth,
       duration |-> Hours(10)],
      [clientId |-> "c1", projectId |-> "p2", month |-> targetDateForMonth,
       duration |-> Hours(5)]>>

EntryIs(c, hours, amount) ==
    /\ c.name \in DOMAIN monthlyRecipe
    /\ monthlyRecipe[c.name].totalHours = hours
    /\ monthlyRecipe[c.name].totalAmount = amount
    /\ IsQuotient(monthlyRecipe[c.name].pricePerHour, amount, hours)

\* C8 as stated: every listed client with a target-month booking is reported
\* with totalHours = the durations of its target-month bookings, totalAmount =
\* the sum over its projects of monthly hours times the lifetime-resolved
\* rate, and pricePerHour = totalAmount / totalHours (0 without hours).
C8_ClientEntry ==
    MonthlyRan =>
        \A c \in Listed(allClients) :
            MonthOf(c) # {} =>
                EntryIs(c, SumOver(allBookingDocuments, MonthOf(c)),
                        AmountOver(c, Listed(allProjects)))

\* C8 amended: the same for every listed client whose display name no other
\* listed client with target-month bookings shares, with totalHours = the
\* durations of its target-month bookings whose project is listed; 10 h on a
\* project resolved at 260 plus 5 h on one resolved at 160 give 15 h and 3400.
C8_ClientEntryKnownProjects ==
    MonthlyRan =>
        /\ \A c \in Listed(allClients) :
               (MonthOf(c) # {} /\ NameIsOwn(c)) =>
                   EntryIs(c,
                       SumOver(allBookingDocuments,
                           {i \in MonthOf(c) :
                               allBookingDocuments[i].projectId \in KnownProjectIds}),
                       AmountOver(c, Listed(allProjects)))
        /\ allBookingDocuments = ExampleDocs =>
               /\ monthlyRecipe["Ana"].totalHours = Hours(15)
               /\ monthlyRecipe["Ana"].totalAmount = Amount(3400)
               /\ monthlyRecipe["Ana"].pricePerHour.num * 15
                      = 3400 * monthlyRecipe["Ana"].pricePerHour.den

C8_Witness ==
    /\ MonthlyRan
    /\ allBookingDocuments = ExampleDocs
    /\ monthlyRecipe["Ana"].totalHours = Hours(15)
    /\ monthlyRecipe["Ana"].totalAmount = Amount(3400)

\* a month other than the target month
OtherMonth == CHOOSE m \in Months : m # targetDateForMonth

\* a target-month booking of an unlisted client or an unlisted project
Dangling(i) ==
    /\ i \in InMonth
    /\ \/ allBookingDocuments[i].clientId \notin KnownClientIds
       \/ allBookingDocuments[i].projectId \notin KnownProjectIds

\* the input with the dangling bookings taken out of the target month
WithoutDangling ==
    [i \in DOMAIN allBookingDocuments |->
        IF Dangling(i)
        THEN [allBookingDocuments[i] EXCEPT !.month = OtherMonth]
        ELSE allBookingDocuments[i]]

RecipeWithoutDangling ==
    calculateMonthlyClientMetrics(WithoutDangling, allProjects, allClients,
                                  targetDateForMonth)

ZeroEntry == [totalHours |-> 0, pricePerHour |-> [num |-> 0, den |-> 1], totalAmount |-> 0]

DistinctNames ==
    \A c, d \in Listed(allClients) : c.name = d.name => c.id = d.id

\* C9 as stated: the result is the one computed from the input with the
\* dangling bookings removed from the target month.
C9_DanglingRemoved ==
    MonthlyRan => monthlyRecipe = RecipeWithoutDangling

\* C9 amended: with distinct client display names, the result is the one
\* computed with the dangling bookings removed from the target month, except
\* that a listed client all of whose target-month bookings reference unlisted
\* projects still gets an entry, with 0 hours, rate 0 and amount 0.
C9_DanglingContributeNothing ==
    (MonthlyRan /\ DistinctNames) =>
        /\ DOMAIN RecipeWithoutDangling \subseteq DOMAIN monthlyRecipe
        /\ \A n \in DOMAIN monthlyRecipe :
               IF n \in DOMAIN RecipeWithoutDangling
               THEN monthlyRecipe[n] = RecipeWithoutDangling[n]
               ELSE /\ monthlyRecipe[n] = ZeroEntry
                    /\ \E c \in Listed(allClients) :
                           /\ c.name = n
                           /\ MonthOf(c) # {}
                           /\ \A i \in MonthOf(c) :
                                  allBookingDocuments[i].projectId \notin KnownProjectIds
        /\ \A c \in Listed(allClients) :
               (MonthOf(c) # {} <=> c.name \in DOMAIN monthlyRecipe)

\* a listed client with a booking on a listed and on an unlisted project, and
\* its entry holds the listed project's hours alone
C9_Witness ==
    /\ MonthlyRan
    /\ DistinctNames
    /\ Len(allBookingDocuments) = 2
    /\ \A i \in DOMAIN allBookingDocuments :
           /\ allBookingDocuments[i].clientId = "c1"
           /\ i \in InMonth
    /\ allBookingDocuments[1].projectId = "pX"
    /\ allBookingDocuments[2].projectId = "p1"
    /\ monthlyRecipe["Ana"].totalHours = allBookingDocuments[2].duration

====
